---- MODULE Spec2Model ----
(***************************************************************************)
(* Model of the curation pipeline of the RSS newsletter generator          *)
(* (generate_newsletter_enhanced_tracking.py, EnhancedNewsletterGenerator). *)
(*                                                                         *)
(* An article is a record [id, score]: id is the article's identity (what  *)
(* its fingerprints stand for), score the value of article['score'].       *)
(* Scores are compared and sorted only, so they are modelled as integers.  *)
(* A ratio is given in percent (95 for 0.95).                              *)
(***************************************************************************)
EXTENDS Integers, Sequences, FiniteSets, TLC

\* ------------------------------------------------------------------------
\* Program constants (EnhancedNewsletterGenerator.__init__)
\* ------------------------------------------------------------------------
articles_per_newsletter == 50
priority_ratio_pct == 95
min_score_threshold == 1
\* scraper.get_article_list(limit=200)
fetch_limit == 200
\* scores are shown as "<score>/100"
max_score == 100

\* ------------------------------------------------------------------------
\* Bounds of the model
\* ------------------------------------------------------------------------
\* SpecSelect: pools of at most MaxPool articles, scores 1..MaxScore,
\* budgets 0..MaxBudget.
MaxPool == 6
MaxScore == 2
MaxBudget == 5

\* SpecScenario: the scores of the 200-article pools are
\* (a * i + b) mod (max_score + 1) for a in 1..MaxSeedA, b in 0..MaxSeedB.
MaxSeedA == 3
MaxSeedB == 40

\* The priority ratios tried by SpecSelect, in percent.  For these values
\* and every budget up to 300 the floating-point product budget * ratio
\* truncates to the same integer as the exact product.
Ratios == {0, 25, 50, 75, 95, 100}

\* Spec: the article source holds the articles 1..NArticles, whose scores
\* take FeedScoreLevels values.
NArticles == 56
FeedScoreLevels == 3
\* Spec: at most MaxRuns runs of generate_and_send_newsletter.
MaxRuns == 3
\* SpecFetch: get_article_list returns at most MaxFetched articles.
MaxFetched == 2

VARIABLES
    \* --- select_newsletter_articles called on its own (SpecSelect, SpecScenario)
    sel_pool,      \* argument `articles` of select_newsletter_articles
    sel_budget,    \* self.articles_per_newsletter at the call
    sel_ratio,     \* self.priority_ratio at the call, in percent
    sel_out,       \* what the call produced
    sel_pc,        \* "ready" before the call, "done" or "raised" after it
    \* --- the environment of a run (Spec)
    now,           \* datetime.now(), in seconds since midnight
    recipient,     \* settings.newsletter_recipient: "unset", "empty" or "set"
    sent_records,  \* the tracker's SentRecords: ids of the articles recorded
    since_generation, \* seconds since the last newsletter was recorded,
                   \* counted up to min_generation_interval (its value when
                   \* there was none yet)
    \* --- generate_and_send_newsletter
    pc,            \* position in the run; "idle" between runs
    raw_articles,
    scored_articles,
    new_articles,
    duplicate_articles,
    priority,      \* priority_articles of the run
    surprise,      \* surprise_articles of the run
    result,        \* what the last run returned: "none", "True", "False"
    exit_at,       \* the return statement the last run left by
    \* --- history of the run and of earlier runs, for the claims
    send_result,   \* send_newsletter in this run: "none", "True", "False"
    mark_calls,    \* calls of mark_articles_sent in this run
    mark_done,     \* mark_articles_sent completed in this run
    store_at_start,\* sent_records when the run started
    runs,          \* runs started so far
    prev,          \* the last earlier run that selected: fetch output,
                   \* selection, whether it called mark_articles_sent
    delivered,     \* ids of the articles e-mailed by earlier runs
    recorded,      \* ids e-mailed by earlier runs whose mark_articles_sent
                   \* completed, less the records pruned since
    pruned,        \* cleanup_old_records has been called
    cleanup_calls, \* calls of cleanup_old_records in this run
    email_calls,   \* calls of email_sender.send_email in this run
    failed_outcome,\* what main reported for the last earlier run that
                   \* failed; <<>> when no run failed yet
    emailed,       \* the articles of the digest e-mailed in this run
    mark_arg,      \* the argument of mark_articles_sent in this run
    \* --- fetch_articles: called on its own (SpecFetch), and fetch_result
    \* and close_calls also in a run (Spec)
    scraper,       \* what the scraper will do: the outcome of the login, of
                   \* get_article_list and of close
    fetch_pc,      \* position in fetch_articles
    fetch_list,    \* the local `articles`
    fetch_result,  \* the value fetch_articles is about to return
    close_calls    \* calls of scraper.close in this invocation

sel_vars == <<sel_pool, sel_budget, sel_ratio, sel_out, sel_pc>>

env_vars == <<now, recipient, sent_records, since_generation>>

run_vars == <<pc, raw_articles, scored_articles, new_articles,
              duplicate_articles, priority, surprise, result, exit_at>>

hist_vars == <<send_result, mark_calls, mark_done, store_at_start, runs, prev,
               delivered, recorded, pruned,
               cleanup_calls, email_calls, failed_outcome,
               emailed, mark_arg>>

fetch_vars == <<scraper, fetch_pc, fetch_list, fetch_result, close_calls>>

vars == <<sel_vars, env_vars, run_vars, hist_vars, fetch_vars>>

\* ------------------------------------------------------------------------
\* Python helpers
\* ------------------------------------------------------------------------
Min(a, b) == IF a <= b THEN a ELSE b

\* s[a:b] for 0 <= a and 0 <= b
PySlice(s, a, b) == SubSeq(s, a + 1, Min(b, Len(s)))

\* s[:k] and s[k:] for 0 <= k
PyTake(s, k) == PySlice(s, 0, k)
PyDrop(s, k) == PySlice(s, k, Len(s))

Ids(s) == {s[i].id : i \in 1..Len(s)}

\* ------------------------------------------------------------------------
\* select_newsletter_articles
\* ------------------------------------------------------------------------
\* sorted(articles, key=lambda x: x['score'], reverse=True): Python's sort
\* is stable, and reverse=True keeps the original order of elements with
\* equal keys.  Element i of the input therefore comes before element j in
\* the result iff its score is higher, or the scores are equal and i < j.
ComesBeforeLastFirst(s, i, j) ==
    \/ s[i].score > s[j].score
    \/ s[i].score = s[j].score /\ i > j

ComesBefore(s, i, j) ==
    \/ s[i].score > s[j].score
    \/ s[i].score = s[j].score /\ i < j

\* the place (1..Len(s)) of element i of s in the sorted result
PlaceOf(s, i) == 1 + Cardinality({j \in 1..Len(s) : ComesBefore(s, j, i)})

articles_sorted(articles) ==
    LET n == Len(articles)
        places == {<<PlaceOf(articles, i), i>> : i \in 1..n}
    IN  [k \in 1..n |-> articles[(CHOOSE p \in places : p[1] = k)[2]]]

\* int(self.articles_per_newsletter * self.priority_ratio), for the ratios of
\* Ratios: int truncates, and for these ratios the floating-point product
\* truncates to the same integer as the exact one.
priority_count(budget, pct) == (budget * pct) \div 100

surprise_count(budget, pct) == budget - priority_count(budget, pct)

\* articles_sorted[:priority_count]
priority_articles(sorted, count) == PyTake(sorted, count)

\* articles_sorted[priority_count:]
remaining_articles_from_top(sorted, count) ==
    PyDrop(sorted, IF count > 0 THEN count - 1 ELSE 0)

remaining_articles(sorted, count) == PyDrop(sorted, count)

start_idx(remaining) == Len(remaining) \div 4
end_idx(remaining) == (3 * Len(remaining)) \div 4

surprise_pool_from_top(remaining) ==
    PySlice(remaining, 0, end_idx(remaining) - start_idx(remaining))

surprise_pool(remaining) ==
    PySlice(remaining, start_idx(remaining), end_idx(remaining))

\* the if/else of lines 176-187
surprise_articles(remaining, count) ==
    IF Len(remaining) > count
    THEN IF Len(surprise_pool(remaining)) >= count
         THEN PyTake(surprise_pool(remaining), count)
         ELSE surprise_pool(remaining)
                \o PyTake(remaining, count - Len(surprise_pool(remaining)))
    ELSE PyTake(remaining, count)

\* The call's outcome.  Line 190 reads priority_articles[-1] and
\* priority_articles[0] for the log line: with an empty priority list that
\* raises IndexError and nothing is returned.
select_newsletter_articles(articles, budget, pct) ==
    LET sorted == articles_sorted(articles)
        prio == priority_articles(sorted, priority_count(budget, pct))
        surp == surprise_articles(
                    remaining_articles(sorted, priority_count(budget, pct)),
                    surprise_count(budget, pct))
    IN  IF Len(prio) = 0
        THEN [raised |-> TRUE, priority |-> <<>>, surprise |-> <<>>]
        ELSE [raised |-> FALSE, priority |-> prio, surprise |-> surp]

\* ------------------------------------------------------------------------
\* The collaborators of a run
\* ------------------------------------------------------------------------
\* is_active_hours: 08:00 <= datetime.now().time() <= 22:00
active_start == 28800
active_end == 79200
is_active_hours_before_end == active_start <= now /\ now < active_end

is_active_hours == active_start <= now /\ now <= active_end

\* datetime.now().hour == 2
cleanup_hour == 2

\* should_generate_newsletter's docstring: "enough time has passed since last
\* generation (2 hours)"
min_generation_interval == 7200
seconds_per_day == 86400
HourOf(t) == t \div 3600

\* The instants the clock takes: 02:00:00, 07:59:59, 08:00:00, 22:00:00 and
\* 22:00:01.
ClockTimes == {7200, 28799, 28800, 79200, 79201}

NextTime(t) ==
    IF \E u \in ClockTimes : u > t
    THEN CHOOSE u \in ClockTimes : u > t /\ \A w \in ClockTimes : w > t => u <= w
    ELSE CHOOSE u \in ClockTimes : \A w \in ClockTimes : u <= w

\* seconds from clock reading t to the next time the clock reads u
Elapsed(t, u) == (u - t + seconds_per_day) % seconds_per_day

\* TopicScorer.score_article: a pure function of the article.  Article 1 is
\* malformed (scoring raises), article 2 matches no topic (empty mapping),
\* article 3 scores 0 on its only topic, every other article scores
\* 1..FeedScoreLevels on its best topic.
score_article_raises(a) == a = 1

\* Article 0 is an item that is no dict: a str, a list or a set in which
\* 'source', 'content' and 'date' are found.  The article source is meant to
\* return article records (List[Dict]), but nothing in fetch_articles checks
\* it and the loop of lines 88-94 lets such an item through.
non_dict_item == 0

\* lines 116-121, 133-135: article.get raises on an item that is no dict,
\* inside the try and again in the log line of the handler, so the exception
\* leaves score_and_filter_articles
score_and_filter_raises(articles) ==
    \E i \in 1..Len(articles) : articles[i] = non_dict_item

score_article(a) ==
    IF a = 2 THEN {}
    ELSE IF a = 3 THEN {0}
    ELSE {0, 1 + (a % FeedScoreLevels)}

\* max(scores.values()) if scores else 0
max_score_of(scores) ==
    IF scores = {} THEN 0
    ELSE CHOOSE m \in scores : \A x \in scores : x <= m

\* score_and_filter_articles: the articles whose scoring did not raise and
\* whose maximum topic score reaches min_score_threshold, in input order,
\* each with its score.
passes_threshold_strict(a) ==
    /\ ~score_article_raises(a)
    /\ max_score_of(score_article(a)) > min_score_threshold

passes_threshold(a) ==
    /\ ~score_article_raises(a)
    /\ max_score_of(score_article(a)) >= min_score_threshold

\* the same loop leaving at the first article whose scoring raises
score_and_filter_articles_until_failure(articles) ==
    LET failing == {i \in 1..Len(articles) : score_article_raises(articles[i])}
        stop == IF failing = {} THEN Len(articles) + 1
                ELSE CHOOSE i \in failing : \A j \in failing : i <= j
        kept == SelectSeq(SubSeq(articles, 1, stop - 1), passes_threshold)
    IN  [i \in 1..Len(kept) |->
            [id |-> kept[i], score |-> max_score_of(score_article(kept[i]))]]

score_and_filter_articles(articles) ==
    LET kept == SelectSeq(articles, passes_threshold)
    IN  [i \in 1..Len(kept) |->
            [id |-> kept[i], score |-> max_score_of(score_article(kept[i]))]]

\* ArticleTracker.filter_new_articles: the articles that match no SentRecord,
\* each once (the first occurrence), in input order.
filter_new_articles(articles, records) ==
    LET first(i) == \A j \in 1..(i - 1) : articles[j].id # articles[i].id
        keep == {i \in 1..Len(articles) :
                    articles[i].id \notin records /\ first(i)}
        place(i) == Cardinality({j \in keep : j <= i})
    IN  [k \in 1..Cardinality(keep) |->
            articles[CHOOSE i \in keep : place(i) = k]]

\* ArticleTracker.get_duplicate_articles: the articles that match a SentRecord.
get_duplicate_articles(articles, records) ==
    SelectSeq(articles, LAMBDA a : a.id \in records)

\* ------------------------------------------------------------------------
\* What the article source returns
\* ------------------------------------------------------------------------
Reverse(s) == [i \in 1..Len(s) |-> s[Len(s) + 1 - i]]

Window(lo, hi) == [i \in 1..(hi - lo + 1) |-> lo + i - 1]

\* get_article_list: a window of the source's articles, oldest first or
\* newest first.  Window(1, 3) holds no article that passes scoring.
\* Window(0, 6) is a list outside the contract of the article source: it
\* holds the item that is no dict, first or (reversed) last.
FetchOutputs ==
    {Window(1, 3), Window(1, 6), Window(1, NArticles - 2),
     Window(1, NArticles), Reverse(Window(1, NArticles)),
     Window(0, 6), Reverse(Window(0, 6))}

\* ------------------------------------------------------------------------
\* generate_and_send_newsletter, one step at a time
\* ------------------------------------------------------------------------
\* main (lines 631-637): the line printed and the exit status of the
\* process for the value generate_and_send_newsletter returned
main_message(success) ==
    IF success = "True"
    THEN "Enhanced newsletter generated and sent successfully!"
    ELSE "Failed to generate or send newsletter"

main_exit_status(success) == IF success = "True" THEN 0 ELSE 1

\* what a run reports: the value returned, the line printed, the exit status
Outcome(success) ==
    <<success, main_message(success), main_exit_status(success)>>

\* The return statements of a run that failed (the exception handler of line
\* 622, the failed send of line 620) and of a run that had nothing to send
\* (lines 580, 586, 594).  Line 574 is taken both when the fetch fails and
\* when the source is empty.
FailureExits == {"exception", "send_failed"}
ExhaustionExits == {"no_scored", "all_duplicates", "none_selected"}

\* fetch_articles is not followed step by step
NoScraper == [login |-> "True", list_raises |-> FALSE, articles |-> <<>>,
              close_raises |-> FALSE]

FetchUnused ==
    /\ scraper = NoScraper
    /\ fetch_pc = "unused"
    /\ fetch_list = <<>> /\ fetch_result = <<>>
    /\ close_calls = 0

NoPrev == [valid |-> FALSE, raw |-> <<>>, priority |-> <<>>,
           surprise |-> <<>>, marked |-> FALSE]

Init ==
    /\ sel_pool = <<>> /\ sel_budget = 0 /\ sel_ratio = 0
    /\ sel_out = [raised |-> FALSE, priority |-> <<>>, surprise |-> <<>>]
    /\ sel_pc = "unused"
    /\ now \in ClockTimes
    /\ recipient \in {"unset", "empty", "set"}
    /\ sent_records = {}
    /\ since_generation = min_generation_interval
    /\ pc = "idle"
    /\ raw_articles = <<>> /\ scored_articles = <<>>
    /\ new_articles = <<>> /\ duplicate_articles = <<>>
    /\ priority = <<>> /\ surprise = <<>>
    /\ result = "none" /\ exit_at = "none"
    /\ send_result = "none" /\ mark_calls = 0 /\ mark_done = FALSE
    /\ store_at_start = {}
    /\ runs = 0
    /\ prev = NoPrev
    /\ delivered = {} /\ recorded = {}
    /\ pruned = FALSE
    /\ cleanup_calls = 0
    /\ email_calls = 0
    /\ failed_outcome = <<>>
    /\ emailed = <<>> /\ mark_arg = <<>>
    /\ FetchUnused

\* a return statement of generate_and_send_newsletter
Return(value, where) ==
    /\ result' = value
    /\ exit_at' = where
    /\ pc' = "idle"

final_articles == priority \o surprise

\* The run starts: what the previous run did is added to the history, the
\* locals are fresh.
BeginRun ==
    /\ runs < MaxRuns
    /\ runs' = runs + 1
    /\ raw_articles' = <<>> /\ scored_articles' = <<>>
    /\ new_articles' = <<>> /\ duplicate_articles' = <<>>
    /\ priority' = <<>> /\ surprise' = <<>>
    /\ send_result' = "none" /\ mark_calls' = 0 /\ mark_done' = FALSE
    /\ cleanup_calls' = 0
    /\ email_calls' = 0
    /\ emailed' = <<>> /\ mark_arg' = <<>>
    /\ failed_outcome' = IF exit_at \in FailureExits
                         THEN Outcome(result)
                         ELSE failed_outcome
    /\ store_at_start' = sent_records
    /\ prev' = IF Len(priority) > 0
               THEN [valid |-> TRUE, raw |-> raw_articles,
                     priority |-> priority, surprise |-> surprise,
                     marked |-> mark_calls > 0]
               ELSE prev
    /\ delivered' = IF send_result = "True"
                    THEN delivered \cup Ids(final_articles)
                    ELSE delivered
    /\ recorded' = IF send_result = "True" /\ mark_done
                   THEN recorded \cup Ids(final_articles)
                   ELSE recorded
    /\ fetch_result' = <<>> /\ close_calls' = 0
    /\ UNCHANGED <<scraper, fetch_pc, fetch_list>>

\* lines 563-564: should_generate_newsletter is False outside active hours
GateClosed ==
    /\ pc = "idle"
    /\ ~is_active_hours
    /\ BeginRun
    /\ Return("False", "outside_hours")
    /\ UNCHANGED <<sel_vars, env_vars, pruned>>

\* lines 563-568: inside active hours; get_sent_articles_stats is read
GateOpen ==
    /\ pc = "idle"
    /\ is_active_hours
    /\ BeginRun
    /\ pc' = "fetch"
    /\ result' = "none" /\ exit_at' = "none"
    /\ UNCHANGED <<sel_vars, env_vars, pruned>>

\* get_sent_articles_stats raises (line 72 or 567): caught at line 622
StatsFails ==
    /\ pc = "idle"
    /\ is_active_hours
    /\ BeginRun
    /\ Return("False", "exception")
    /\ UNCHANGED <<sel_vars, env_vars, pruned>>

\* The run is suspended at line 571 while fetch_articles waits for the
\* scraper: at line 83 (pc = "fetch"), at line 84 (pc = "fetch_list") and at
\* line 105 (pc = "fetch_close").  fetch_result holds the value that
\* fetch_articles is about to return.  src/ starts no other task, and the
\* run reads the clock only at its start and at its end (Tick).
RunLocals == <<raw_articles, scored_articles, new_articles,
               duplicate_articles, priority, surprise>>

\* line 83: ensure_logged_in returns a true value
FetchLogin ==
    /\ pc = "fetch"
    /\ pc' = "fetch_list"
    /\ UNCHANGED <<sel_vars, fetch_vars, env_vars, hist_vars, RunLocals,
                   result, exit_at>>

\* lines 83, 97-103: ensure_logged_in returns a false value or raises;
\* `return []` hands control to the finally clause
FetchLoginFails ==
    /\ pc = "fetch"
    /\ fetch_result' = <<>>
    /\ pc' = "fetch_close"
    /\ UNCHANGED <<sel_vars, scraper, fetch_pc, fetch_list, close_calls,
                   env_vars, hist_vars, RunLocals, result, exit_at>>

\* lines 84-96: get_article_list returns articles, the loop normalises
\* them; `return articles` hands control to the finally clause
FetchGetArticleList ==
    /\ pc = "fetch_list"
    /\ \E out \in FetchOutputs : fetch_result' = out
    /\ pc' = "fetch_close"
    /\ UNCHANGED <<sel_vars, scraper, fetch_pc, fetch_list, close_calls,
                   env_vars, hist_vars, RunLocals, result, exit_at>>

\* lines 84-103: get_article_list returns the empty list, or it raises, or
\* the loop raises; the value to return is []
FetchGetArticleListFails ==
    /\ pc = "fetch_list"
    /\ fetch_result' = <<>>
    /\ pc' = "fetch_close"
    /\ UNCHANGED <<sel_vars, scraper, fetch_pc, fetch_list, close_calls,
                   env_vars, hist_vars, RunLocals, result, exit_at>>

\* lines 104-105, 571-574: scraper.close returns and fetch_articles returns
\* articles
FetchArticles ==
    /\ pc = "fetch_close"
    /\ Len(fetch_result) > 0
    /\ close_calls' = close_calls + 1
    /\ raw_articles' = fetch_result
    /\ pc' = "score"
    /\ UNCHANGED <<sel_vars, scraper, fetch_pc, fetch_list, fetch_result,
                   env_vars, hist_vars, scored_articles,
                   new_articles, duplicate_articles, priority, surprise,
                   result, exit_at>>

\* lines 104-105, 571-574: scraper.close returns and fetch_articles returns
\* []; the run returns False
FetchNothing ==
    /\ pc = "fetch_close"
    /\ Len(fetch_result) = 0
    /\ close_calls' = close_calls + 1
    /\ Return("False", "no_articles")
    /\ UNCHANGED <<sel_vars, scraper, fetch_pc, fetch_list, fetch_result,
                   env_vars, hist_vars, RunLocals>>

\* lines 104-105, 571, 622-626: scraper.close raises in the finally clause of
\* fetch_articles; the exception replaces the value to return, leaves
\* fetch_articles and is caught by the run, which returns False
FetchCloseRaises ==
    /\ pc = "fetch_close"
    /\ close_calls' = close_calls + 1
    /\ fetch_result' = <<>>
    /\ Return("False", "exception")
    /\ UNCHANGED <<sel_vars, scraper, fetch_pc, fetch_list,
                   env_vars, hist_vars, RunLocals>>

\* lines 577-580
ScoreArticles ==
    /\ pc = "score"
    /\ ~score_and_filter_raises(raw_articles)
    /\ scored_articles' = score_and_filter_articles(raw_articles)
    /\ IF Len(scored_articles') = 0
       THEN Return("False", "no_scored")
       ELSE pc' = "dedupe" /\ UNCHANGED <<result, exit_at>>
    /\ UNCHANGED <<sel_vars, fetch_vars, env_vars, hist_vars, raw_articles,
                   new_articles, duplicate_articles, priority, surprise>>

\* lines 577, 116-135, 622-626: score_and_filter_articles raises on an item
\* that is no dict; scored_articles is never bound and the run returns False
\* from its own except clause
ScoreArticlesRaises ==
    /\ pc = "score"
    /\ score_and_filter_raises(raw_articles)
    /\ Return("False", "exception")
    /\ UNCHANGED <<sel_vars, fetch_vars, env_vars, hist_vars, RunLocals>>

\* the same step, recording the new articles as sent while filtering
RemoveDuplicatesAndRecord ==
    /\ pc = "dedupe"
    /\ new_articles' = filter_new_articles(scored_articles, sent_records)
    /\ duplicate_articles' = get_duplicate_articles(scored_articles, sent_records)
    /\ sent_records' = sent_records \cup Ids(new_articles')
    /\ IF Len(new_articles') = 0
       THEN Return("False", "all_duplicates")
       ELSE pc' = "select" /\ UNCHANGED <<result, exit_at>>
    /\ UNCHANGED <<sel_vars, fetch_vars, now, recipient, since_generation, hist_vars,
                   raw_articles, scored_articles, priority, surprise>>

\* the same step going on with the scored articles when none of them is new
RemoveDuplicatesOrAll ==
    /\ pc = "dedupe"
    /\ new_articles' = IF Len(filter_new_articles(scored_articles, sent_records)) = 0
                       THEN scored_articles
                       ELSE filter_new_articles(scored_articles, sent_records)
    /\ duplicate_articles' = get_duplicate_articles(scored_articles, sent_records)
    /\ pc' = "select"
    /\ UNCHANGED <<sel_vars, fetch_vars, env_vars, hist_vars, raw_articles,
                   scored_articles, priority, surprise, result, exit_at>>

\* the same step without the check of line 584: the run goes on to the
\* selection even when no article is new
RemoveDuplicatesUnchecked ==
    /\ pc = "dedupe"
    /\ new_articles' = filter_new_articles(scored_articles, sent_records)
    /\ duplicate_articles' = get_duplicate_articles(scored_articles, sent_records)
    /\ pc' = "select"
    /\ UNCHANGED <<sel_vars, fetch_vars, env_vars, hist_vars, raw_articles,
                   scored_articles, priority, surprise, result, exit_at>>

\* lines 583-586
RemoveDuplicates ==
    /\ pc = "dedupe"
    /\ new_articles' = filter_new_articles(scored_articles, sent_records)
    /\ duplicate_articles' = get_duplicate_articles(scored_articles, sent_records)
    /\ IF Len(new_articles') = 0
       THEN Return("False", "all_duplicates")
       ELSE pc' = "select" /\ UNCHANGED <<result, exit_at>>
    /\ UNCHANGED <<sel_vars, fetch_vars, env_vars, hist_vars, raw_articles,
                   scored_articles, priority, surprise>>

\* the same failure swallowed: every scored article is taken as new
RemoveDuplicatesFailsOpen ==
    /\ pc = "dedupe"
    /\ new_articles' = scored_articles
    /\ pc' = "select"
    /\ UNCHANGED <<sel_vars, fetch_vars, env_vars, hist_vars, raw_articles,
                   scored_articles, duplicate_articles, priority, surprise,
                   result, exit_at>>

\* the tracker raises a persistence error in remove_duplicates: line 622
RemoveDuplicatesFails ==
    /\ pc = "dedupe"
    /\ Return("False", "exception")
    /\ UNCHANGED <<sel_vars, fetch_vars, env_vars, hist_vars, raw_articles,
                   scored_articles, new_articles, duplicate_articles,
                   priority, surprise>>

\* line 589 with the pool handed to select_newsletter_articles
SelectionOfScored ==
    select_newsletter_articles(scored_articles, articles_per_newsletter,
                               priority_ratio_pct)

SelectionOfNew ==
    select_newsletter_articles(new_articles, articles_per_newsletter,
                               priority_ratio_pct)

\* lines 589-594
SelectArticles ==
    /\ pc = "select"
    /\ LET out == SelectionOfNew
       IN  IF out.raised
           THEN /\ Return("False", "exception")
                /\ UNCHANGED <<priority, surprise>>
           ELSE /\ priority' = out.priority
                /\ surprise' = out.surprise
                /\ IF Len(out.priority \o out.surprise) = 0
                   THEN Return("False", "none_selected")
                   ELSE pc' = "send" /\ UNCHANGED <<result, exit_at>>
    /\ UNCHANGED <<sel_vars, fetch_vars, env_vars, hist_vars, raw_articles,
                   scored_articles, new_articles, duplicate_articles>>

\* the same case with the check of line 531 left out: the message goes to
\* the e-mail sender with an empty list of recipients and is refused
SendWithoutRecipientCheck ==
    /\ pc = "send"
    /\ recipient = "empty"
    /\ email_calls' = email_calls + 1
    /\ send_result' = "False"
    /\ Return("False", "send_failed")
    /\ UNCHANGED <<sel_vars, fetch_vars, env_vars, raw_articles, scored_articles,
                   new_articles, duplicate_articles, priority, surprise,
                   mark_calls, mark_done, store_at_start, runs, prev,
                   delivered, recorded, pruned,
                   cleanup_calls, failed_outcome,
                   emailed, mark_arg>>

\* lines 530-533: settings.newsletter_recipient is empty
SendNoRecipient ==
    /\ pc = "send"
    /\ recipient = "empty"
    /\ send_result' = "False"
    /\ Return("False", "send_failed")
    /\ UNCHANGED <<sel_vars, fetch_vars, env_vars, raw_articles, scored_articles,
                   new_articles, duplicate_articles, priority, surprise,
                   mark_calls, mark_done, store_at_start, runs, prev,
                   delivered, recorded, pruned,
                   cleanup_calls, email_calls, failed_outcome,
                   emailed, mark_arg>>

\* lines 597, 622-626: generate_html_newsletter raises (line 430 on an
\* article whose summary is None); send_newsletter is not called, `success`
\* is never bound and the run returns False from its own except clause.
\* The text part of send_newsletter (lines 489-525, before its try) slices
\* the same summaries, so in a run it raises only where line 597 already has.
DigestRaises ==
    /\ pc = "send"
    /\ Return("False", "exception")
    /\ UNCHANGED <<sel_vars, fetch_vars, env_vars, hist_vars, RunLocals>>

\* lines 528-554: inside the try of send_newsletter, reading the recipient
\* raises (the settings object has no such attribute), or the EmailMessage
\* constructor or send_email raises; send_newsletter returns False
SendRaises ==
    /\ pc = "send"
    /\ recipient \in {"unset", "set"}
    /\ \E handed \in (IF recipient = "set" THEN {0, 1} ELSE {0}) :
          email_calls' = email_calls + handed
    /\ send_result' = "False"
    /\ Return("False", "send_failed")
    /\ UNCHANGED <<sel_vars, fetch_vars, env_vars, raw_articles, scored_articles,
                   new_articles, duplicate_articles, priority, surprise,
                   mark_calls, mark_done, store_at_start, runs, prev,
                   delivered, recorded, pruned,
                   cleanup_calls, failed_outcome,
                   emailed, mark_arg>>

\* the same outcome with the `if success` of line 602 ignored
SendRejectedThenMark ==
    /\ pc = "send"
    /\ recipient = "set"
    /\ email_calls' = email_calls + 1
    /\ send_result' = "False"
    /\ pc' = "mark"
    /\ UNCHANGED <<sel_vars, fetch_vars, env_vars, raw_articles, scored_articles,
                   new_articles, duplicate_articles, priority, surprise,
                   result, exit_at,
                   mark_calls, mark_done, store_at_start, runs, prev,
                   delivered, recorded, pruned,
                   cleanup_calls, failed_outcome,
                   emailed, mark_arg>>

\* lines 548-550, 618-620: send_email returns False
SendRejected ==
    /\ pc = "send"
    /\ recipient = "set"
    /\ email_calls' = email_calls + 1
    /\ send_result' = "False"
    /\ Return("False", "send_failed")
    /\ UNCHANGED <<sel_vars, fetch_vars, env_vars, raw_articles, scored_articles,
                   new_articles, duplicate_articles, priority, surprise,
                   mark_calls, mark_done, store_at_start, runs, prev,
                   delivered, recorded, pruned,
                   cleanup_calls, failed_outcome,
                   emailed, mark_arg>>

\* lines 543-547, 600-602: send_email returns True, the digest is e-mailed
SendDelivered ==
    /\ pc = "send"
    /\ recipient = "set"
    /\ email_calls' = email_calls + 1
    /\ emailed' = priority \o surprise
    /\ send_result' = "True"
    /\ pc' = "mark"
    /\ UNCHANGED <<sel_vars, fetch_vars, env_vars, raw_articles, scored_articles,
                   new_articles, duplicate_articles, priority, surprise,
                   result, exit_at, mark_calls, mark_done, store_at_start,
                   runs, prev, delivered, recorded, pruned,
                   cleanup_calls, failed_outcome,
                   mark_arg>>

\* the same step marking the priority articles only
MarkPriorityArticlesSent ==
    /\ pc = "mark"
    /\ mark_arg' = priority
    /\ mark_calls' = mark_calls + 1
    /\ mark_done' = TRUE
    /\ sent_records' = sent_records \cup Ids(mark_arg')
    /\ since_generation' = 0
    /\ pc' = "cleanup"
    /\ UNCHANGED <<sel_vars, fetch_vars, now, recipient, raw_articles,
                   scored_articles, new_articles, duplicate_articles,
                   priority, surprise, result, exit_at, send_result,
                   store_at_start, runs, prev, delivered, recorded, pruned,
                   cleanup_calls, email_calls, failed_outcome,
                   emailed>>

\* the same call with a store that keeps the records of the last digest
\* only: marking deletes the older records
MarkArticlesSentReplacingStore ==
    /\ pc = "mark"
    /\ mark_arg' = final_articles
    /\ mark_calls' = mark_calls + 1
    /\ mark_done' = TRUE
    /\ sent_records' = Ids(mark_arg')
    /\ since_generation' = 0
    /\ pc' = "cleanup"
    /\ UNCHANGED <<sel_vars, fetch_vars, now, recipient, raw_articles,
                   scored_articles, new_articles, duplicate_articles,
                   priority, surprise, result, exit_at, send_result,
                   store_at_start, runs, prev, delivered, recorded, pruned,
                   cleanup_calls, email_calls, failed_outcome,
                   emailed>>

\* line 604: mark_articles_sent(final_articles) records every article
MarkArticlesSent ==
    /\ pc = "mark"
    /\ mark_arg' = final_articles
    /\ mark_calls' = mark_calls + 1
    /\ mark_done' = TRUE
    /\ sent_records' = sent_records \cup Ids(mark_arg')
    /\ since_generation' = 0
    /\ pc' = "cleanup"
    /\ UNCHANGED <<sel_vars, fetch_vars, now, recipient, raw_articles,
                   scored_articles, new_articles, duplicate_articles,
                   priority, surprise, result, exit_at, send_result,
                   store_at_start, runs, prev, delivered, recorded, pruned,
                   cleanup_calls, email_calls, failed_outcome,
                   emailed>>

\* the same failure swallowed: the run goes on as if the articles were marked
MarkArticlesSentFailsSilently ==
    /\ pc = "mark"
    /\ mark_arg' = final_articles
    /\ mark_calls' = mark_calls + 1
    /\ pc' = "cleanup"
    /\ UNCHANGED <<sel_vars, fetch_vars, env_vars, raw_articles, scored_articles,
                   new_articles, duplicate_articles, priority, surprise,
                   result, exit_at,
                   send_result, mark_done, store_at_start, runs, prev,
                   delivered, recorded, pruned,
                   cleanup_calls, email_calls, failed_outcome,
                   emailed>>

\* line 604: mark_articles_sent raises, no record is kept; line 622
MarkArticlesSentFails ==
    /\ pc = "mark"
    /\ mark_arg' = final_articles
    /\ mark_calls' = mark_calls + 1
    /\ Return("False", "exception")
    /\ UNCHANGED <<sel_vars, fetch_vars, env_vars, raw_articles, scored_articles,
                   new_articles, duplicate_articles, priority, surprise,
                   send_result, mark_done, store_at_start, runs, prev,
                   delivered, recorded, pruned,
                   cleanup_calls, email_calls, failed_outcome,
                   emailed>>

\* lines 612, 617: it is not 2 o'clock, no cleanup
FinishWithoutCleanup ==
    /\ pc = "cleanup"
    /\ HourOf(now) # cleanup_hour
    /\ Return("True", "success")
    /\ UNCHANGED <<sel_vars, fetch_vars, env_vars, hist_vars, raw_articles,
                   scored_articles, new_articles, duplicate_articles,
                   priority, surprise>>

\* lines 612-617: cleanup_old_records(days_to_keep=30) deletes the records
\* older than the horizon: none of them, or every record that was there
\* when the run started (the records of this run are new).
CleanupOldRecords ==
    /\ pc = "cleanup"
    /\ HourOf(now) = cleanup_hour
    /\ \E old \in {{}, store_at_start} :
          /\ sent_records' = sent_records \ old
          /\ recorded' = recorded \ old
    /\ pruned' = TRUE
    /\ cleanup_calls' = cleanup_calls + 1
    /\ Return("True", "success")
    /\ UNCHANGED <<sel_vars, fetch_vars, now, recipient, since_generation, raw_articles,
                   scored_articles, new_articles, duplicate_articles,
                   priority, surprise,
                   send_result, mark_calls, mark_done, store_at_start, runs,
                   prev, delivered, email_calls, failed_outcome,
                   emailed, mark_arg>>

\* line 613: cleanup_old_records raises and deletes nothing; line 622
CleanupOldRecordsFails ==
    /\ pc = "cleanup"
    /\ HourOf(now) = cleanup_hour
    /\ pruned' = TRUE
    /\ cleanup_calls' = cleanup_calls + 1
    /\ Return("False", "exception")
    /\ UNCHANGED <<sel_vars, fetch_vars, env_vars, raw_articles, scored_articles,
                   new_articles, duplicate_articles, priority, surprise,
                   send_result, mark_calls, mark_done, store_at_start, runs,
                   prev, delivered, recorded, email_calls, failed_outcome,
                   emailed, mark_arg>>

\* Time passes: the clock moves to its next instant.  The clock is read at
\* the start of a run (line 59) and after the articles are marked (line
\* 612) only, so the time that passes during a run is taken there.
Tick ==
    /\ pc \in {"idle", "cleanup"}
    /\ now' = NextTime(now)
    /\ since_generation' = Min(min_generation_interval,
                               since_generation + Elapsed(now, NextTime(now)))
    /\ UNCHANGED <<sel_vars, fetch_vars, recipient, sent_records, run_vars, hist_vars>>

Next ==
    \/ GateClosed \/ GateOpen \/ StatsFails
    \/ FetchLogin \/ FetchLoginFails
    \/ FetchGetArticleList \/ FetchGetArticleListFails
    \/ FetchArticles \/ FetchNothing \/ FetchCloseRaises
    \/ ScoreArticles \/ ScoreArticlesRaises
    \/ RemoveDuplicates \/ RemoveDuplicatesFails
    \/ SelectArticles
    \/ DigestRaises
    \/ SendNoRecipient \/ SendRaises \/ SendRejected \/ SendDelivered
    \/ MarkArticlesSent \/ MarkArticlesSentFails
    \/ FinishWithoutCleanup \/ CleanupOldRecords \/ CleanupOldRecordsFails
    \/ Tick

Spec == Init /\ [][Next]_vars

\* ------------------------------------------------------------------------
\* SpecSelect: select_newsletter_articles on every small pool
\* ------------------------------------------------------------------------
NoOut == [raised |-> FALSE, priority |-> <<>>, surprise |-> <<>>]

\* The variables of a run are not used by these specifications.
PipelineUnused ==
    /\ now = 43200 /\ recipient = "unset"
    /\ sent_records = {}
    /\ since_generation = min_generation_interval
    /\ pc = "unused"
    /\ raw_articles = <<>> /\ scored_articles = <<>>
    /\ new_articles = <<>> /\ duplicate_articles = <<>>
    /\ priority = <<>> /\ surprise = <<>>
    /\ result = "none" /\ exit_at = "none"
    /\ send_result = "none" /\ mark_calls = 0 /\ mark_done = FALSE
    /\ store_at_start = {}
    /\ runs = 0
    /\ prev = NoPrev
    /\ delivered = {} /\ recorded = {}
    /\ pruned = FALSE
    /\ cleanup_calls = 0
    /\ email_calls = 0
    /\ failed_outcome = <<>>
    /\ emailed = <<>> /\ mark_arg = <<>>

\* The pool whose i-th article has identity i and score scores[i].
PoolOf(scores) == [i \in 1..Len(scores) |-> [id |-> i, score |-> scores[i]]]

ScoreSeqs == UNION {[1..n -> 1..MaxScore] : n \in 0..MaxPool}

SelectInit ==
    /\ sel_pool \in {PoolOf(s) : s \in ScoreSeqs}
    /\ sel_budget \in 0..MaxBudget
    /\ sel_ratio \in Ratios
    /\ sel_out = NoOut
    /\ sel_pc = "ready"
    /\ PipelineUnused
    /\ FetchUnused

SelectReturns ==
    /\ sel_pc = "ready"
    /\ LET out == select_newsletter_articles(sel_pool, sel_budget, sel_ratio)
       IN  ~out.raised /\ sel_out' = out
    /\ sel_pc' = "done"
    /\ UNCHANGED <<sel_pool, sel_budget, sel_ratio, env_vars, run_vars, hist_vars,
                   fetch_vars>>

SelectRaises ==
    /\ sel_pc = "ready"
    /\ LET out == select_newsletter_articles(sel_pool, sel_budget, sel_ratio)
       IN  out.raised /\ sel_out' = out
    /\ sel_pc' = "raised"
    /\ UNCHANGED <<sel_pool, sel_budget, sel_ratio, env_vars, run_vars, hist_vars,
                   fetch_vars>>

SelectNext == SelectReturns \/ SelectRaises

SpecSelect == SelectInit /\ [][SelectNext]_vars

\* ------------------------------------------------------------------------
\* Claims about select_newsletter_articles (SpecSelect)
\* ------------------------------------------------------------------------
IsSortedDesc(s) == \A i \in 1..(Len(s) - 1) : s[i].score >= s[i + 1].score

NoRepeat(s) == Cardinality(Ids(s)) = Len(s)

\* The locals of the call recorded in sel_pool, sel_budget, sel_ratio.
SelCount == surprise_count(sel_budget, sel_ratio)
SelRemaining ==
    remaining_articles(articles_sorted(sel_pool),
                       priority_count(sel_budget, sel_ratio))
SelSlice == surprise_pool(SelRemaining)
SelPadded ==
    /\ Len(SelRemaining) > SelCount
    /\ Len(SelSlice) < SelCount

\* C3: the priority list and the surprise list a call returns share no
\* article, and together they hold at most `budget` entries.
C3_DisjointWithinBudget ==
    sel_pc = "done" =>
        /\ Ids(sel_out.priority) \cap Ids(sel_out.surprise) = {}
        /\ Len(sel_out.priority) + Len(sel_out.surprise) <= sel_budget

\* C3 witness: a call that returned a non-empty priority list and a padded
\* surprise list, the two filling the budget.
C3_Witness ==
    /\ sel_pc = "done"
    /\ SelPadded
    /\ Len(sel_out.priority) > 0
    /\ Len(sel_out.priority) + Len(sel_out.surprise) = sel_budget

\* C7 (as claimed): the surprise list is drawn from the middle slice
\* [len/4, 3*len/4) of the remainder; it is padded only when the slice holds
\* fewer than surprise_count items, every padding item lies outside the slice
\* and scores at least as high as every remainder item left out, and no
\* article appears twice in the surprise list.
C7_SurpriseFromMiddleSlice ==
    sel_pc = "done" =>
        LET rem   == SelRemaining
            slice == SelSlice
            surp  == sel_out.surprise
            pad   == {i \in 1..Len(rem) :
                        rem[i].id \in Ids(surp) \ Ids(slice)}
            out   == {i \in 1..Len(rem) :
                        rem[i].id \notin Ids(surp) \cup Ids(slice)}
        IN  /\ NoRepeat(surp)
            /\ Ids(surp) \subseteq Ids(rem)
            /\ Len(slice) >= SelCount => Ids(surp) \subseteq Ids(slice)
            /\ Len(slice) < SelCount =>
                 /\ Ids(slice) \subseteq Ids(surp)
                 /\ \A i \in pad, j \in out : rem[i].score >= rem[j].score

\* C8 (as claimed): every call returns normally, returns only articles of
\* the pool, and returns min(budget, size of pool) distinct articles.
C8_ReturnsMinBudgetPool ==
    sel_pc # "ready" =>
        /\ sel_pc = "done"
        /\ Ids(sel_out.priority) \cup Ids(sel_out.surprise) \subseteq Ids(sel_pool)
        /\ Cardinality(Ids(sel_out.priority) \cup Ids(sel_out.surprise))
             = Min(sel_budget, Len(sel_pool))

\* C9 (as claimed): both returned lists are sorted by score, descending.
C9_BothListsSortedDesc ==
    sel_pc = "done" =>
        /\ IsSortedDesc(sel_out.priority)
        /\ IsSortedDesc(sel_out.surprise)

\* ------------------------------------------------------------------------
\* SpecScenario: the configured budget and ratio on pools of fetch_limit
\* articles whose scores spread over 0..max_score
\* ------------------------------------------------------------------------
ScenarioScores(a, b) == [i \in 1..fetch_limit |-> (a * i + b) % (max_score + 1)]

ScenarioInit ==
    /\ sel_pool \in {PoolOf(ScenarioScores(a, b)) :
                        a \in 1..MaxSeedA, b \in 0..MaxSeedB}
    /\ sel_budget = articles_per_newsletter
    /\ sel_ratio = priority_ratio_pct
    /\ sel_out = NoOut
    /\ sel_pc = "ready"
    /\ PipelineUnused
    /\ FetchUnused

SpecScenario == ScenarioInit /\ [][SelectReturns]_vars

\* floor(budget * pct / 100), stated without integer division
FloorOfProduct(budget, pct) ==
    CHOOSE k \in 0..budget : k * 100 <= budget * pct /\ budget * pct < (k + 1) * 100

\* 0-based rank of article `a` in the sequence s
RankIn(s, a) == (CHOOSE i \in 1..Len(s) : s[i].id = a.id) - 1

\* C6: priority_count = floor(budget * ratio), surprise_count is the rest of
\* the budget; with budget 50 and ratio 0.95 a pool of 200 articles yields 47
\* priority and 3 surprise articles, the surprise articles at ranks 38..113
\* of the 153-item remainder, none among its first 10 or last 10 ranks.
C6_Scenario47Plus3 ==
    sel_pc = "done" =>
        /\ priority_count(sel_budget, sel_ratio) = FloorOfProduct(sel_budget, sel_ratio)
        /\ surprise_count(sel_budget, sel_ratio)
             = sel_budget - FloorOfProduct(sel_budget, sel_ratio)
        /\ Len(sel_out.priority) = 47
        /\ Len(sel_out.surprise) = 3
        /\ Len(SelRemaining) = 153
        /\ \A i \in 1..Len(sel_out.surprise) :
              LET r == RankIn(SelRemaining, sel_out.surprise[i])
              IN  /\ sel_out.surprise[i].id \in Ids(SelRemaining)
                  /\ 38 <= r /\ r <= 113
                  /\ r >= 10
                  /\ r < Len(SelRemaining) - 10

\* C6 witness: the call on a 200-article pool returned with the configured
\* budget and ratio, and the surprise list is not empty.
C6_Witness ==
    /\ sel_pc = "done"
    /\ Len(sel_pool) = 200
    /\ sel_budget = 50 /\ sel_ratio = 95
    /\ Len(sel_out.surprise) > 0

\* ------------------------------------------------------------------------
\* SpecFetch: fetch_articles step by step, against every behaviour of the
\* scraper.  Here an item of the fetched list is a record [kind, keys]:
\* kind is "dict" for a dict with the keys `keys`, "container" for another
\* object that supports `in` (a str, a list, a set) and in which the
\* members `keys` are found, "scalar" for an object that does not support
\* `in` (None, a number).
\* ------------------------------------------------------------------------
ArticleKeySets ==
    {{"source", "content", "published_date"}, {"feed_name", "summary"},
     {"date"}, {}}

FetchedItems ==
    {[kind |-> "dict", keys |-> k] : k \in ArticleKeySets}
        \cup {[kind |-> "container", keys |-> {"source", "content", "date"}],
              [kind |-> "container", keys |-> {"source"}],
              [kind |-> "scalar", keys |-> {}]}

FetchedLists == UNION {[1..n -> FetchedItems] : n \in 0..MaxFetched}

\* lines 89, 91, 93: one of the three `not in` tests is true
lacks_key(a) ==
    \/ "source" \notin a.keys
    \/ "content" \notin a.keys
    \/ "published_date" \notin a.keys /\ "date" \notin a.keys

\* lines 89-94: the loop body raises on an item that does not support `in`,
\* and on a non-dict container as soon as a test is true (it has no `get`)
item_raises(a) ==
    \/ a.kind = "scalar"
    \/ a.kind = "container" /\ lacks_key(a)

\* lines 89-94: the item after the loop body; a container that passes the
\* three tests is left as it is
normalize_article(a) ==
    IF a.kind = "dict"
    THEN [kind |-> "dict",
          keys |-> a.keys \cup {"source", "content"}
                     \cup (IF "published_date" \notin a.keys /\ "date" \notin a.keys
                           THEN {"published_date"} ELSE {})]
    ELSE a

\* lines 88-94: the loop raises
normalize_raises(articles) == \E i \in 1..Len(articles) : item_raises(articles[i])

normalize(articles) == [i \in 1..Len(articles) |-> normalize_article(articles[i])]

\* lines 88-94: the list when the loop raises; the items before the raising
\* one have been normalised in place
first_raising(articles) ==
    CHOOSE i \in 1..Len(articles) :
        /\ item_raises(articles[i])
        /\ \A j \in 1..(i - 1) : ~item_raises(articles[j])

normalize_until_raise(articles) ==
    [i \in 1..Len(articles) |->
        IF i < first_raising(articles) THEN normalize_article(articles[i])
        ELSE articles[i]]

FetchInit ==
    /\ scraper \in [login : {"True", "False", "raises"},
                    list_raises : BOOLEAN,
                    articles : FetchedLists,
                    close_raises : BOOLEAN]
    /\ fetch_pc = "login"
    /\ fetch_list = <<>> /\ fetch_result = <<>>
    /\ close_calls = 0
    /\ sel_pool = <<>> /\ sel_budget = 0 /\ sel_ratio = 0
    /\ sel_out = NoOut
    /\ sel_pc = "unused"
    /\ PipelineUnused

\* line 83: ensure_logged_in returns a true value
LoginSucceeds ==
    /\ fetch_pc = "login"
    /\ scraper.login = "True"
    /\ fetch_pc' = "get"
    /\ UNCHANGED <<scraper, fetch_list, fetch_result, close_calls,
                   sel_vars, env_vars, run_vars, hist_vars>>

\* the failed login with the close at the end of the try body instead of in
\* a finally clause: the early return leaves without closing
LoginFailsLeavesOpen ==
    /\ fetch_pc = "login"
    /\ scraper.login = "False"
    /\ fetch_result' = <<>>
    /\ fetch_pc' = "returned"
    /\ UNCHANGED <<scraper, fetch_list, close_calls,
                   sel_vars, env_vars, run_vars, hist_vars>>

\* lines 83, 97-99: ensure_logged_in returns a false value; `return []`
\* hands control to the finally clause
LoginFails ==
    /\ fetch_pc = "login"
    /\ scraper.login = "False"
    /\ fetch_result' = <<>>
    /\ fetch_pc' = "finally"
    /\ UNCHANGED <<scraper, fetch_list, close_calls,
                   sel_vars, env_vars, run_vars, hist_vars>>

\* line 83: ensure_logged_in raises
LoginRaises ==
    /\ fetch_pc = "login"
    /\ scraper.login = "raises"
    /\ fetch_pc' = "except"
    /\ UNCHANGED <<scraper, fetch_list, fetch_result, close_calls,
                   sel_vars, env_vars, run_vars, hist_vars>>

\* line 84: get_article_list returns a list
GetArticleList ==
    /\ fetch_pc = "get"
    /\ ~scraper.list_raises
    /\ fetch_list' = scraper.articles
    /\ fetch_pc' = "normalize"
    /\ UNCHANGED <<scraper, fetch_result, close_calls,
                   sel_vars, env_vars, run_vars, hist_vars>>

\* line 84: get_article_list raises
GetArticleListRaises ==
    /\ fetch_pc = "get"
    /\ scraper.list_raises
    /\ fetch_pc' = "except"
    /\ UNCHANGED <<scraper, fetch_list, fetch_result, close_calls,
                   sel_vars, env_vars, run_vars, hist_vars>>

\* lines 88-96: the loop completes; `return articles` hands control to the
\* finally clause
NormalizeArticles ==
    /\ fetch_pc = "normalize"
    /\ ~normalize_raises(fetch_list)
    /\ fetch_list' = normalize(fetch_list)
    /\ fetch_result' = fetch_list'
    /\ fetch_pc' = "finally"
    /\ UNCHANGED <<scraper, close_calls,
                   sel_vars, env_vars, run_vars, hist_vars>>

\* lines 88-94: the loop raises, after it has normalised the items before
\* the raising one
NormalizeRaises ==
    /\ fetch_pc = "normalize"
    /\ normalize_raises(fetch_list)
    /\ fetch_list' = normalize_until_raise(fetch_list)
    /\ fetch_pc' = "except"
    /\ UNCHANGED <<scraper, fetch_result, close_calls,
                   sel_vars, env_vars, run_vars, hist_vars>>

\* lines 101-103: the exception is logged; `return []` hands control to the
\* finally clause
HandleFetchException ==
    /\ fetch_pc = "except"
    /\ fetch_result' = <<>>
    /\ fetch_pc' = "finally"
    /\ UNCHANGED <<scraper, fetch_list, close_calls,
                   sel_vars, env_vars, run_vars, hist_vars>>

\* lines 104-105: scraper.close returns, and fetch_articles returns the
\* pending value
CloseScraper ==
    /\ fetch_pc = "finally"
    /\ ~scraper.close_raises
    /\ close_calls' = close_calls + 1
    /\ fetch_pc' = "returned"
    /\ UNCHANGED <<scraper, fetch_list, fetch_result,
                   sel_vars, env_vars, run_vars, hist_vars>>

\* lines 104-105: scraper.close raises; its exception replaces the pending
\* return and leaves fetch_articles
CloseScraperRaises ==
    /\ fetch_pc = "finally"
    /\ scraper.close_raises
    /\ close_calls' = close_calls + 1
    /\ fetch_result' = <<>>
    /\ fetch_pc' = "raised"
    /\ UNCHANGED <<scraper, fetch_list,
                   sel_vars, env_vars, run_vars, hist_vars>>

FetchNext ==
    \/ LoginSucceeds \/ LoginFails \/ LoginRaises
    \/ GetArticleList \/ GetArticleListRaises
    \/ NormalizeArticles \/ NormalizeRaises
    \/ HandleFetchException
    \/ CloseScraper \/ CloseScraperRaises

SpecFetch == FetchInit /\ [][FetchNext]_vars

\* ------------------------------------------------------------------------
\* Claims about generate_and_send_newsletter (Spec)
\* ------------------------------------------------------------------------
\* C1: mark_articles_sent is called in a run only after send_newsletter
\* returned True in that run; in a run whose send failed it is never called.
C1_MarkOnlyAfterSendSuccess ==
    mark_calls > 0 => send_result = "True"

\* C1 witness: a run e-mailed its digest and then marked its articles.
C1_Witness ==
    /\ send_result = "True"
    /\ mark_calls = 1
    /\ Ids(final_articles) \subseteq sent_records
    /\ Len(final_articles) > 0

\* C2 (as claimed): with no pruning so far, a digest that is e-mailed holds
\* no article that an earlier run e-mailed.
C2_NeverDeliveredTwice ==
    (send_result = "True" /\ ~pruned) =>
        Ids(final_articles) \cap delivered = {}

\* C2 (amended): a digest that is e-mailed holds no article that was
\* e-mailed by an earlier run whose mark_articles_sent completed, unless its
\* record was pruned since.
C2_RecordedNeverDeliveredAgain ==
    send_result = "True" =>
        Ids(final_articles) \cap recorded = {}

\* C2 witness: a digest is e-mailed in a run that fetched articles recorded
\* by an earlier run and filtered them out as duplicates.
C2_Witness ==
    /\ send_result = "True"
    /\ recorded # {}
    /\ Ids(duplicate_articles) \cap recorded # {}
    /\ Len(final_articles) > 0

\* C5: a run in which mark_articles_sent is not called leaves the
\* SentRecords as they were when it started, and a later run on the same
\* fetch output selects the same priority and surprise lists.
C5_IdempotentRerun ==
    /\ mark_calls = 0 => sent_records = store_at_start
    /\ (Len(priority) > 0 /\ prev.valid /\ ~prev.marked
            /\ raw_articles = prev.raw)
         => (priority = prev.priority /\ surprise = prev.surprise)

\* C5 witness: after a run that selected but never marked, a run on the
\* same fetch output has selected again, with duplicates filtered out and a
\* non-empty surprise list.
C5_Witness ==
    /\ prev.valid /\ ~prev.marked
    /\ raw_articles = prev.raw
    /\ Len(priority) > 0 /\ Len(surprise) > 0
    /\ Len(duplicate_articles) > 0
    /\ mark_calls = 0

\* place of article id a in the fetch output
FetchPlace(a) == CHOOSE i \in 1..Len(raw_articles) : raw_articles[i] = a

\* C10: the priority list is the top priority_count articles of the pool by
\* score: each priority article scores at least as high as each pool article
\* left out, and among equal scores the article earlier in the fetch order
\* comes first.  Stated where the selection has just been made; the lists
\* do not change for the rest of the run.
C10_PriorityIsTopByScore ==
    (pc = "send" /\ Len(priority) > 0) =>
        LET pool == new_articles
            left == {j \in 1..Len(pool) : pool[j].id \notin Ids(priority)}
        IN  /\ Len(priority)
                 = Min(priority_count(articles_per_newsletter, priority_ratio_pct),
                       Len(pool))
            /\ Ids(priority) \subseteq Ids(pool)
            /\ NoRepeat(priority)
            /\ \A i \in 1..Len(priority) :
                 /\ priority[i].score = max_score_of(score_article(priority[i].id))
                 /\ \A j \in left :
                      \/ priority[i].score > pool[j].score
                      \/ /\ priority[i].score = pool[j].score
                         /\ FetchPlace(priority[i].id) < FetchPlace(pool[j].id)
                 /\ \A k \in (i + 1)..Len(priority) :
                      \/ priority[i].score > priority[k].score
                      \/ /\ priority[i].score = priority[k].score
                         /\ FetchPlace(priority[i].id) < FetchPlace(priority[k].id)

\* C10 witness: a pool larger than priority_count, fetched newest first and
\* with duplicates removed, where an article left out ties with the last
\* priority article.
C10_Witness ==
    /\ Len(priority) = 47
    /\ Len(new_articles) > 47
    /\ Len(duplicate_articles) > 0
    /\ raw_articles[1] > raw_articles[2]
    /\ \E j \in 1..Len(new_articles) :
          /\ new_articles[j].id \notin Ids(priority)
          /\ new_articles[j].score = priority[47].score

\* an article's scoring succeeded and one of its topic scores reaches the
\* threshold
ReachesThreshold(a) ==
    /\ ~score_article_raises(a)
    /\ \E m \in score_article(a) : m >= min_score_threshold

\* C11: once score_and_filter_articles has returned the scored set of a
\* run, an article is in the scored set iff its scoring succeeded and its
\* highest topic score (0 for an empty mapping) is at least
\* min_score_threshold; its score field is that highest score; every article
\* selected or recorded reaches the threshold.
C11_ScoredIffReachesThreshold ==
    /\ (pc # "score" /\ ~score_and_filter_raises(raw_articles)) =>
         LET scored_ids == Ids(scored_articles)
         IN  \A i \in 1..Len(raw_articles) :
                raw_articles[i] \in scored_ids
                    <=> ReachesThreshold(raw_articles[i])
    /\ \A i \in 1..Len(scored_articles) :
          /\ scored_articles[i].score \in score_article(scored_articles[i].id)
          /\ \A x \in score_article(scored_articles[i].id) :
                x <= scored_articles[i].score
    /\ LET scored_set == {scored_articles[j] : j \in 1..Len(scored_articles)}
       IN  \A i \in 1..Len(final_articles) :
              /\ final_articles[i] \in scored_set
              /\ final_articles[i].score >= min_score_threshold
    /\ \A a \in sent_records : ReachesThreshold(a)

\* C11 witness: the fetch output held an article whose scoring raises, one
\* with an empty topic mapping and one that scores 0; the digest was e-mailed
\* and recorded, and one of its articles scores exactly the threshold.
C11_Witness ==
    /\ pc = "cleanup"
    /\ {1, 2, 3} \subseteq {raw_articles[i] : i \in 1..Len(raw_articles)}
    /\ Ids(final_articles) \subseteq sent_records
    /\ \E i \in 1..Len(final_articles) :
          final_articles[i].score = min_score_threshold

\* the fetch output without the articles whose scoring raises
WithoutFailing(articles) ==
    SelectSeq(articles, LAMBDA a : ~score_article_raises(a))

\* the scoring step of a run has just been taken
JustScored == pc = "dedupe" \/ (pc = "idle" /\ exit_at = "no_scored")

\* C12: on a fetch output of article records, an article whose scoring
\* raises does not abort the batch.  When the scoring step of a run has been
\* taken, the run is at the duplicate check or has ended for want of scored
\* articles, and the scored set is what scoring the fetch output without the
\* failing articles gives (same articles, same scores), in fetch order.
C12_ScoringFailureIsolated ==
    ~score_and_filter_raises(raw_articles) =>
        /\ (Len(raw_articles) > 0 /\ pc # "score" /\ Len(scored_articles) = 0)
              => JustScored
        /\ JustScored =>
            /\ scored_articles
                  = score_and_filter_articles(WithoutFailing(raw_articles))
            /\ \A i \in 1..Len(scored_articles) :
                  /\ ~score_article_raises(scored_articles[i].id)
                  /\ i < Len(scored_articles) =>
                        FetchPlace(scored_articles[i].id)
                            < FetchPlace(scored_articles[i + 1].id)
            /\ LET scored_ids == Ids(scored_articles)
               IN  \A i \in 1..Len(raw_articles) :
                      (~score_article_raises(raw_articles[i])
                           /\ max_score_of(score_article(raw_articles[i]))
                                >= min_score_threshold)
                         => raw_articles[i] \in scored_ids
            /\ exit_at # "exception"

\* C12 witness: the scoring of an article raised, articles fetched after it
\* are in the scored set, and the run went on to the duplicate check.
C12_Witness ==
    /\ pc = "dedupe"
    /\ \E j, k \in 1..Len(raw_articles) :
          /\ j < k
          /\ score_article_raises(raw_articles[j])
          /\ raw_articles[k] \in Ids(scored_articles)
    /\ Len(scored_articles) > 1

\* the clock reads before 08:00 or after 22:00
OutsideActiveHours == now < active_start \/ now > active_end

\* generate_and_send_newsletter is entered
RunStarts == pc = "idle" /\ runs' = runs + 1

\* C13: a run started outside the active hours (08:00 and 22:00 themselves
\* are inside) returns False at once: nothing is fetched, scored, selected,
\* sent, recorded or pruned, and the SentRecords and the configuration are
\* as they were; a run started inside the active hours is not suppressed.
C13_SuppressedOutsideActiveHours ==
    [][RunStarts =>
          IF OutsideActiveHours
          THEN /\ pc' = "idle"
               /\ result' = "False" /\ exit_at' = "outside_hours"
               /\ raw_articles' = <<>> /\ scored_articles' = <<>>
               /\ new_articles' = <<>> /\ duplicate_articles' = <<>>
               /\ priority' = <<>> /\ surprise' = <<>>
               /\ send_result' = "none" /\ mark_calls' = 0
               /\ sent_records' = sent_records
               /\ recipient' = recipient
               /\ pruned' = pruned
          ELSE exit_at' # "outside_hours"]_vars

\* C13 witness: a run was suppressed at a time outside the active hours
\* while the tracker held the records of an earlier digest.
C13_Witness ==
    /\ pc = "idle"
    /\ exit_at = "outside_hours" /\ result = "False"
    /\ OutsideActiveHours
    /\ sent_records # {}
    /\ runs > 1

EarlyExits == {"no_articles", "no_scored", "all_duplicates"}

\* the run is over and has sent, recorded and pruned nothing
NothingDone ==
    /\ pc = "idle" /\ result = "False"
    /\ Len(final_articles) = 0
    /\ send_result = "none"
    /\ mark_calls = 0
    /\ cleanup_calls = 0
    /\ sent_records = store_at_start

\* C14: a run whose fetch gives nothing, whose fetch output holds no article
\* that passes scoring, or whose scored articles all have SentRecords ends
\* early: send_newsletter, mark_articles_sent and cleanup_old_records are not
\* called and the SentRecords are as they were when the run started.
C14_EarlyExitTouchesNothing ==
    /\ exit_at \in EarlyExits => NothingDone
    /\ (pc = "idle" /\ runs > 0 /\ Len(raw_articles) = 0
            /\ exit_at \notin {"outside_hours", "exception"})
          => exit_at = "no_articles"
    /\ (pc # "score" /\ Len(raw_articles) > 0
            /\ \A i \in 1..Len(raw_articles) : ~ReachesThreshold(raw_articles[i]))
          => exit_at = "no_scored"
    /\ (pc \notin {"score", "dedupe"} /\ Len(scored_articles) > 0
            /\ Ids(scored_articles) \subseteq store_at_start
            /\ exit_at # "exception")
          => exit_at = "all_duplicates"

\* C14 witness: every article that passed scoring already had a SentRecord,
\* written by an earlier run, and the run ended at the duplicate check.
C14_Witness ==
    /\ exit_at = "all_duplicates"
    /\ Len(scored_articles) > 0
    /\ Len(duplicate_articles) = Len(scored_articles)
    /\ Ids(scored_articles) \subseteq sent_records
    /\ NothingDone

\* C15 (as claimed): a run that had nothing new to send is not reported as
\* an error (exit status 0), and what it reports (the value returned, the
\* line printed, the exit status) differs from what a failed run reports.
C15_ExhaustionDistinctFromFailure ==
    (pc = "idle" /\ exit_at \in ExhaustionExits) =>
        /\ main_exit_status(result) = 0
        /\ failed_outcome # <<>> => Outcome(result) # failed_outcome

\* no delivery recipient is configured: the setting is empty or missing
NoRecipientConfigured == recipient \in {"unset", "empty"}

\* C16: with no recipient configured no message is handed to the e-mail
\* sender and nothing is recorded or pruned; once send_newsletter has been
\* called it has returned False and the run has returned False; a run that
\* selected a digest ends with False, at the send or, when building the
\* HTML digest raised, before send_newsletter was called.
C16_NoRecipientNoSideEffects ==
    NoRecipientConfigured =>
        /\ email_calls = 0
        /\ send_result # "True"
        /\ mark_calls = 0 /\ cleanup_calls = 0
        /\ sent_records = store_at_start
        /\ send_result = "False"
              => /\ pc = "idle" /\ result = "False"
                 /\ exit_at = "send_failed"
        /\ (pc = "idle" /\ Len(final_articles) > 0)
              => /\ result = "False"
                 /\ \/ send_result = "False" /\ exit_at = "send_failed"
                    \/ send_result = "none" /\ exit_at = "exception"

\* C16 witness: a run selected a digest, reached send_newsletter with an
\* empty recipient setting and ended there.
C16_Witness ==
    /\ recipient = "empty"
    /\ Len(final_articles) > 0
    /\ send_result = "False"
    /\ exit_at = "send_failed" /\ result = "False"
    /\ email_calls = 0

\* the step in which the duplicate check of a run raises
DuplicateCheckFails == pc = "dedupe" /\ exit_at' = "exception"

\* C17: when the duplicate check raises, the run ends there with result
\* False: no article is taken as new or selected, no message is sent, and
\* nothing is recorded or pruned.  In every run the articles taken as new are
\* articles the check found no SentRecord for.
C17_DuplicateCheckFailsLoudly ==
    /\ [](Ids(new_articles) \cap store_at_start = {})
    /\ [][DuplicateCheckFails =>
             /\ pc' = "idle" /\ result' = "False"
             /\ new_articles' = <<>>
             /\ priority' = <<>> /\ surprise' = <<>>
             /\ send_result' = "none" /\ email_calls' = 0
             /\ mark_calls' = 0 /\ cleanup_calls' = 0
             /\ sent_records' = sent_records]_vars

\* C17 witness: the duplicate check raised in a run whose scored articles
\* include articles recorded by an earlier run.
C17_Witness ==
    /\ pc = "idle"
    /\ exit_at = "exception" /\ result = "False"
    /\ Len(scored_articles) > 0
    /\ Len(new_articles) = 0 /\ Len(duplicate_articles) = 0
    /\ Ids(scored_articles) \cap sent_records # {}
    /\ send_result = "none" /\ mark_calls = 0

\* C18: SentRecords are deleted by nothing but cleanup_old_records.  The
\* store loses a record only in the step that calls cleanup_old_records,
\* at line 613 when the clock reads 2 o'clock; a run calls it at most once,
\* after its digest was e-mailed and marked; and as long as a run has not
\* called it, every record the run started with is still there.  That the
\* call is reachable from the start of a run is the witness below.
C18_OnlyCleanupDeletesRecords ==
    /\ [](/\ cleanup_calls = 0 => store_at_start \subseteq sent_records
          /\ cleanup_calls > 0 => /\ cleanup_calls = 1
                                  /\ send_result = "True" /\ mark_done)
    /\ [][~(sent_records \subseteq sent_records')
            => /\ pc = "cleanup"
               /\ HourOf(now) = cleanup_hour
               /\ cleanup_calls = 0 /\ cleanup_calls' = 1]_vars

\* C18 witness: a run that started with records of an earlier digest has
\* called cleanup_old_records, which deleted those records, and returned
\* True.
C18_Witness ==
    /\ pc = "idle" /\ result = "True"
    /\ cleanup_calls = 1
    /\ store_at_start # {}
    /\ sent_records \cap store_at_start = {}
    /\ Ids(final_articles) \subseteq sent_records

\* C19 (as claimed): should_generate_newsletter returns True, and the run
\* goes on to fetch, only inside the active hours and when at least
\* min_generation_interval seconds have passed since the last newsletter.
C19_SuppressedWithinTwoHours ==
    [][(RunStarts /\ pc' = "fetch")
          => /\ ~OutsideActiveHours
             /\ since_generation >= min_generation_interval]_vars

\* the digest of this run was e-mailed and each of its articles recorded
DeliveredAndRecorded ==
    /\ send_result = "True"
    /\ mark_done
    /\ Ids(final_articles) \subseteq sent_records

\* C20 (as claimed): a finished run returned True iff its digest was
\* e-mailed and every article of it recorded, and it returned False only if
\* no e-mail was delivered.
C20_ResultAgreesWithDelivery ==
    (pc = "idle" /\ runs > 0) =>
        /\ result = "True" <=> DeliveredAndRecorded
        /\ result = "False" => send_result # "True"

\* C20 (amended): a run returns True only if its digest was e-mailed, by one
\* call of send_email, and every article of it recorded by one call of
\* mark_articles_sent.  A run that e-mailed its digest returns False exactly
\* when mark_articles_sent or cleanup_old_records raised afterwards, through
\* the exception handler.
C20_TrueOnlyIfDeliveredAndRecorded ==
    /\ result = "True" =>
          /\ DeliveredAndRecorded
          /\ Len(final_articles) > 0
          /\ email_calls = 1 /\ mark_calls = 1
          /\ exit_at = "success"
    /\ (pc = "idle" /\ send_result = "True") =>
          /\ result = "False" <=> (~mark_done \/ exit_at = "exception")
          /\ result = "False" =>
                /\ exit_at = "exception"
                /\ mark_calls = 1
                /\ ~mark_done \/ cleanup_calls = 1

\* C20 witness: a run e-mailed its digest, mark_articles_sent raised, and the
\* run returned False with no article recorded.
C20_Witness ==
    /\ pc = "idle"
    /\ send_result = "True" /\ email_calls = 1
    /\ ~mark_done /\ mark_calls = 1
    /\ result = "False"
    /\ Ids(final_articles) \cap sent_records = {}
    /\ Len(final_articles) > 0

\* C21 (as claimed): in a run whose send succeeded, mark_articles_sent is
\* called once, with the e-mailed articles, and once it has been called
\* the SentRecords the run has added are those of the e-mailed articles: no
\* article is recorded that was not delivered and no delivered article is
\* left unrecorded.
C21_NoDeliveredArticleUnrecorded ==
    send_result = "True" =>
        /\ emailed = priority \o surprise
        /\ pc # "mark" =>
              /\ mark_calls = 1
              /\ mark_arg = emailed
              /\ sent_records \ store_at_start = Ids(emailed)

\* C21: in a run whose send succeeded, mark_articles_sent is not called
\* before the send returns and is called once after it, with the articles
\* of the e-mailed digest, the priority list followed by the surprise list.
\* When the call completes, the SentRecords the run has added are those of
\* the e-mailed articles, no more and no fewer.  When the call raises, the
\* run has added no SentRecord, every delivered article is left unrecorded
\* and the run returns False.
C21_MarksExactlyWhatWasSent ==
    send_result = "True" =>
        /\ emailed = priority \o surprise
        /\ pc = "mark" => (mark_calls = 0 /\ mark_arg = <<>>)
        /\ pc # "mark" =>
              /\ mark_calls = 1
              /\ mark_arg = emailed
        /\ mark_done => sent_records \ store_at_start = Ids(emailed)
        /\ (pc # "mark" /\ ~mark_done)
              => /\ sent_records = store_at_start
                 /\ pc = "idle" /\ result = "False" /\ exit_at = "exception"

\* C21 witness: a digest with priority and surprise articles was e-mailed
\* and marked, in a run that started with records of an earlier digest.
C21_Witness ==
    /\ send_result = "True"
    /\ mark_done /\ mark_calls = 1
    /\ Len(priority) > 0 /\ Len(surprise) > 0
    /\ mark_arg = priority \o surprise
    /\ store_at_start # {}
    /\ Ids(emailed) \subseteq sent_records

\* C22: select_newsletter_articles is called with a non-empty pool only.
\* With the configured budget and ratio its priority list is then not empty:
\* the call does not raise at line 190, the run goes on to send_newsletter,
\* and the exit "No articles selected for newsletter" is never taken.
C22_SelectionNeverEmpty ==
    /\ [](/\ pc = "select" => Len(new_articles) > 0
          /\ exit_at # "none_selected"
          /\ pc \in {"send", "mark", "cleanup"} =>
                /\ Len(priority) > 0
                /\ Len(priority) = Min(Len(new_articles),
                                       priority_count(articles_per_newsletter,
                                                      priority_ratio_pct)))
    /\ [][pc = "select" =>
             /\ pc' = "send"
             /\ ~SelectionOfNew.raised
             /\ Len(priority') > 0
             /\ exit_at' = "none"]_vars

\* C22 witness: the selection was made from a pool of a single new article,
\* which is both the first and the last priority article.
C22_Witness ==
    /\ pc = "send"
    /\ Len(new_articles) = 1
    /\ Len(priority) = 1 /\ Len(surprise) = 0
    /\ priority[1] = new_articles[1]
    /\ Len(duplicate_articles) > 0

\* ------------------------------------------------------------------------
\* Claims about fetch_articles (SpecFetch)
\* ------------------------------------------------------------------------
\* the login failed or raised, get_article_list raised, or the loop over the
\* articles raised
FetchFailed ==
    \/ scraper.login # "True"
    \/ scraper.list_raises
    \/ normalize_raises(scraper.articles)

FetchLeft == fetch_pc \in {"returned", "raised"}

\* C23: every invocation of fetch_articles calls scraper.close exactly once
\* before control leaves it, on every path (articles returned, login failed,
\* login or fetching raised): no close before the finally clause, one when
\* control has left, and control leaves only by the step that closes.  A
\* fetch failure ends in the empty list, a fetch without failure in the
\* normalised articles; an exception leaves fetch_articles only when
\* scraper.close itself raised.
C23_ClosesOnceOnEveryPath ==
    /\ [](/\ ~FetchLeft => close_calls = 0
          /\ FetchLeft => close_calls = 1
          /\ fetch_pc = "raised" => scraper.close_raises
          /\ (fetch_pc = "returned" /\ FetchFailed) => fetch_result = <<>>
          /\ (fetch_pc = "returned" /\ ~FetchFailed)
                => fetch_result = normalize(scraper.articles))
    /\ [][FetchLeft' /\ ~FetchLeft
            => /\ fetch_pc = "finally"
               /\ close_calls' = close_calls + 1]_vars

\* C23 witness: get_article_list raised after a successful login, and
\* fetch_articles returned the empty list with the scraper closed once.
C23_Witness ==
    /\ fetch_pc = "returned"
    /\ scraper.login = "True" /\ scraper.list_raises
    /\ Len(scraper.articles) > 0
    /\ fetch_result = <<>>
    /\ close_calls = 1

====
